---- MODULE Spec2Model ----
(***************************************************************************)
(* Model of the gravl route service (src/main.py): the county boundary     *)
(* dataset, the three geospatial endpoints (process_polyline,              *)
(* process_polylines_batch, get_county_from_point) and the image endpoint  *)
(* (convert_images).  One request is in flight at a time: a handler action *)
(* consumes a request and produces the response, Complete hands the        *)
(* response back and discards the request-scoped objects.                  *)
(*                                                                         *)
(* Geometry is exact integer geometry.  Counties are axis-aligned          *)
(* rectangles in the dataset's plane (x = longitude, y = latitude).  The   *)
(* library calls of the source (LineString, sjoin/intersects, contains,    *)
(* centroid, project, sort_values, zfill) are modelled by what they        *)
(* compute.                                                                *)
(***************************************************************************)
EXTENDS Integers, Sequences, FiniteSets, TLC

VARIABLES
  boundary_file,  \* the boundary file on disk
  counties_gdf,   \* the module-level dataset
  loads,          \* number of times the boundary file has been read
  request,        \* the request in flight, or Idle
  response,       \* the response of the request in flight, or NoResponse
  entered         \* TRUE iff the handler body ran for the request in flight

vars == <<boundary_file, counties_gdf, loads, request, response, entered>>

\* ------------------------------------------------------------------ bounds
MaxRoutePts == 2    \* longest route of a single-route request
MaxBatch == 2       \* most routes in a batch request
MaxLoads == 2       \* cap on the load counter
MaxUpload == 21     \* most files in an upload
MaxBadSlot == 3     \* last position of an upload that may hold a failing file

\* ------------------------------------------------------- program constants
LAT_MIN == -90
LAT_MAX == 90
LNG_MIN == -180
LNG_MAX == 180
FIPS_WIDTH == 5
MAX_FILES == 20
MAX_SIZE_MB == 10

\* --------------------------------------------------------------- optionals
None == <<>>
Some(v) == <<v>>

Max(a, b) == IF a >= b THEN a ELSE b
Min(a, b) == IF a <= b THEN a ELSE b

\* ----------------------------------------------------------------- dataset
\* Three counties: A and B side by side, D on top of A; the cell on top of B
\* belongs to no county.  The FIPS column of the attribute table is either
\* text (five characters) or numeric (leading zeros are absent).
Rect(x0, x1, y0, y1) == [xmin |-> x0, xmax |-> x1, ymin |-> y0, ymax |-> y1]

County(fips, name, r) ==
  [FIPS |-> fips, name |-> name, xmin |-> r.xmin, xmax |-> r.xmax, ymin |-> r.ymin, ymax |-> r.ymax]

RectA == Rect(0, 2, 0, 2)
RectB == Rect(2, 4, 0, 2)
RectD == Rect(0, 2, 2, 4)

TextRows ==
  << County("01001", "Autauga", RectA), County("06075", "San Francisco", RectB),
     County("48201", "Harris", RectD) >>

NumericRows ==
  << County(1001, "Autauga", RectA), County(6075, "San Francisco", RectB),
     County(48201, "Harris", RectD) >>

\* The storage orders of the boundary file: every order of the rows.
StorageOrders ==
  { [i \in 1..3 |-> TextRows[p[i]]] :
      p \in { q \in [1..3 -> 1..3] : \A i, j \in 1..3 : i # j => q[i] # q[j] } }

\* The attribute under which the file keeps the county's name.
NameColumns == {"NAME", "COUNTYNAME", "County_Nam", "LABEL"}

\* The boundary files the service may be started on: a text FIPS column in
\* every storage order, and a numeric FIPS column under every name column.
TextFiles ==
  { [rows |-> s, name_column |-> "NAME", fips_dtype |-> "str"] : s \in StorageOrders }

NumericFiles ==
  { [rows |-> NumericRows, name_column |-> c, fips_dtype |-> "int"] : c \in NameColumns }

\* gpd.read_file(path).to_crs("EPSG:4326"): the rows in storage order, the
\* geometry in x = longitude, y = latitude.
read_file(file) == file

\* --------------------------------------------------------------- geometry
Vec(x, y) == [x |-> x, y |-> y]
Sub(u, v) == Vec(u.x - v.x, u.y - v.y)
Dot(u, v) == u.x * v.x + u.y * v.y
Cross(u, v) == u.x * v.y - u.y * v.x
Dbl(p) == Vec(2 * p.x, 2 * p.y)

\* Point(x, y)
Point(x, y) == Vec(x, y)

\* county.centroid, in doubled coordinates (the centroid of a rectangle)
Centroid2(c) == Vec(c.xmin + c.xmax, c.ymin + c.ymax)

Corners(c) ==
  { Vec(c.xmin, c.ymin), Vec(c.xmin, c.ymax), Vec(c.xmax, c.ymin), Vec(c.xmax, c.ymax) }

\* polygon.contains(point): the point is in the polygon's interior; a point
\* of the polygon's boundary is not contained.
Contains(c, p) ==
  /\ c.xmin < p.x /\ p.x < c.xmax
  /\ c.ymin < p.y /\ p.y < c.ymax

\* The closed segment p-q meets the closed rectangle c (separating axes: the
\* two axes of the rectangle and the normal of the segment).
SegIntersects(p, q, c) ==
  /\ Max(p.x, q.x) >= c.xmin /\ Min(p.x, q.x) <= c.xmax
  /\ Max(p.y, q.y) >= c.ymin /\ Min(p.y, q.y) <= c.ymax
  /\ LET side == { Cross(Sub(q, p), Sub(k, p)) : k \in Corners(c) }
     IN  /\ ~(\A v \in side : v > 0)
         /\ ~(\A v \in side : v < 0)

\* predicate="intersects" of a line with a polygon; an empty line meets
\* nothing.
Intersects(line, c) ==
  \E i \in 1..(Len(line) - 1) : SegIntersects(line[i], line[i + 1], c)

\* Squared length of segment i of the line, in doubled coordinates.
SegLen2(line, i) ==
  LET d == Sub(Dbl(line[i + 1]), Dbl(line[i])) IN Dot(d, d)

\* Dot product of (c2 - a) with the direction of segment i, clamped to the
\* segment: the projection parameter t = SegDotClamped / SegLen2 in [0, 1].
SegDotClamped(line, i, c2) ==
  LET a == Dbl(line[i])
      d == Sub(Dbl(line[i + 1]), a)
      raw == Dot(Sub(c2, a), d)
  IN  Max(0, Min(raw, Dot(d, d)))

\* Squared distance from c2 to segment i as a fraction num/den, den > 0.
SegDist2(line, i, c2) ==
  LET a == Dbl(line[i])
      b == Dbl(line[i + 1])
      d == Sub(b, a)
      w == Sub(c2, a)
      l2 == Dot(d, d)
      raw == Dot(w, d)
  IN  IF l2 = 0 \/ raw <= 0 THEN [num |-> Dot(w, w), den |-> 1]
      ELSE IF raw >= l2 THEN [num |-> Dot(Sub(c2, b), Sub(c2, b)), den |-> 1]
      ELSE [num |-> Cross(d, w) * Cross(d, w), den |-> l2]

\* a/b < c/d for a, c >= 0 and b, d > 0, by the integer parts and then the
\* remainders (no product is formed, so no intermediate value overflows).
RECURSIVE RatLess(_, _, _, _)
RatLess(a, b, c, d) ==
  IF a \div b # c \div d THEN a \div b < c \div d
  ELSE IF c % d = 0 THEN FALSE
  ELSE IF a % b = 0 THEN TRUE
  ELSE RatLess(d, c % d, b, a % b)

FracLess(f, g) == RatLess(f.num, f.den, g.num, g.den)

\* The segment nearest to c2; the first one among equally near segments.
NearestSeg(line, c2) ==
  CHOOSE i \in 1..(Len(line) - 1) :
    /\ \A j \in 1..(Len(line) - 1) : ~FracLess(SegDist2(line, j, c2), SegDist2(line, i, c2))
    /\ \A j \in 1..(i - 1) : FracLess(SegDist2(line, i, c2), SegDist2(line, j, c2))

\* A position on the line is (segment, offset on it); the end of a segment
\* and the start of the next one are the same position, and a zero-length
\* segment is a single position.
RECURSIVE Canon(_, _, _)
Canon(line, k, num) ==
  IF k < Len(line) - 1 /\ (SegLen2(line, k) = 0 \/ num = SegLen2(line, k))
  THEN Canon(line, k + 1, 0)
  ELSE [seg |-> k, num |-> IF SegLen2(line, k) = 0 THEN 0 ELSE num]

\* line.project(point): the arc-length position of the point of the line
\* nearest to the given point, as an ordered key (equal keys = equal
\* distances along the line, smaller key = smaller distance).
Project(line, c2) ==
  LET k == NearestSeg(line, c2)
  IN  Canon(line, k, SegDotClamped(line, k, c2))

KeyLess(a, b) == a.seg < b.seg \/ (a.seg = b.seg /\ a.num < b.num)

\* ------------------------------------------------------------- responses
Idle == [endpoint |-> "idle"]
NoResponse == [status |-> 0, detail |-> "", body |-> None]

Ok(body) == [status |-> 200, detail |-> "", body |-> body]
\* an exception that leaves the handler: the framework's 500
InternalServerError == [status |-> 500, detail |-> "Internal Server Error", body |-> None]
\* a request the pydantic model rejects: the framework's 422
UnprocessableEntity == [status |-> 422, detail |-> "validation error", body |-> None]
HTTPException(code, detail) == [status |-> code, detail |-> detail, body |-> None]

\* ------------------------------------------------------ route correlation
\* "for lat, lng in polyline" unpacks every element into exactly two values.
Unpacks(polyline) == \A i \in DOMAIN polyline : Len(polyline[i]) = 2

\* decoded_path = [(lat, lng) for lat, lng in polyline]: the tuples are
\* handed to LineString as they are, so the first value of a pair (lat) is
\* the x of the line and the second (lng) is its y.
decoded_path(polyline) ==
  [i \in DOMAIN polyline |-> Vec(polyline[i][1], polyline[i][2])]

\* LineString(coords) raises for exactly one coordinate tuple; no tuple gives
\* the empty line, and two equal tuples give a zero-length line.
LineStringRaises(path) == Len(path) = 1

\* gpd.sjoin(counties, line, how="inner", predicate="intersects"): the rows
\* of the dataset that meet the line, in dataset order.
sjoin(gdf, line) == SelectSeq(gdf.rows, LAMBDA c : Intersects(line, c))

\* intersection_order of row i
intersection_order(rows, line, i) == Project(line, Centroid2(rows[i]))

\* The orders of 1..Len(rows) that are ascending in intersection_order.
AscendingOrders(rows, line) ==
  { p \in [DOMAIN rows -> DOMAIN rows] :
      /\ \A i, j \in DOMAIN rows : i # j => p[i] # p[j]
      /\ \A i, j \in DOMAIN rows :
           i < j => ~KeyLess(intersection_order(rows, line, p[j]),
                             intersection_order(rows, line, p[i])) }

\* sort_values("intersection_order") with the default kind (quicksort): rows
\* ascending by key; the sort is not stable, so rows with equal keys come out
\* in any order.
sort_values(rows, line) ==
  { [i \in DOMAIN rows |-> rows[p[i]]] : p \in AscendingOrders(rows, line) }

Raised == [raised |-> TRUE, fips |-> <<>>]
Returned(fips) == [raised |-> FALSE, fips |-> fips]

\* The body shared by process_polyline and process_single_polyline: the
\* outcomes of correlating one polyline with the dataset gdf.
correlate(polyline, gdf) ==
  IF ~Unpacks(polyline) THEN {Raised}
  ELSE IF LineStringRaises(decoded_path(polyline)) THEN {Raised}
  ELSE LET line == decoded_path(polyline)
       IN  { Returned([i \in DOMAIN s |-> s[i].FIPS]) : s \in sort_values(sjoin(gdf, line), line) }

\* process_polyline: builds the line, then reads the boundary file again and
\* correlates against that copy.  loaded = 1 iff the file was read.
process_polyline(polyline, file) ==
  IF ~Unpacks(polyline) \/ LineStringRaises(decoded_path(polyline))
  THEN { [response |-> InternalServerError, loaded |-> 0] }
  ELSE { [response |-> Ok([fips_codes |-> o.fips]), loaded |-> 1] :
           o \in correlate(polyline, read_file(file)) }

\* process_single_polyline: correlates against the module-level dataset.
process_single_polyline(polyline, gdf) == correlate(polyline, gdf)

\* for polyline in data.polylines: results.append(process_single_polyline(polyline))
\* An exception of one polyline leaves the loop and the handler.
RECURSIVE batch_loop(_, _, _)
batch_loop(polylines, results, gdf) ==
  IF polylines = <<>> THEN { [raised |-> FALSE, results |-> results] }
  ELSE UNION { IF o.raised
               THEN { [raised |-> TRUE, results |-> <<>>] }
               ELSE batch_loop(Tail(polylines), Append(results, o.fips), gdf) :
               o \in process_single_polyline(Head(polylines), gdf) }

process_polylines_batch(polylines, gdf) ==
  { IF o.raised THEN InternalServerError ELSE Ok([results |-> o.results]) :
      o \in batch_loop(polylines, <<>>, gdf) }

\* ------------------------------------------------------------ point lookup
\* PointRequest: lat and lng are required, lat in [-90, 90], lng in [-180, 180].
ValidPointRequest(lat, lng) ==
  /\ lat # None /\ lng # None
  /\ LAT_MIN <= lat[1] /\ lat[1] <= LAT_MAX
  /\ LNG_MIN <= lng[1] /\ lng[1] <= LNG_MAX

\* str(value) of a FIPS attribute
str(v, dtype) == IF dtype = "int" THEN ToString(v) ELSE v

\* zfill with the padding left out
zfill_unpadded(s, width) == s

\* s.zfill(width): zeros on the left up to the width; a longer string is
\* returned unchanged.
RECURSIVE zfill(_, _)
zfill(s, width) == IF Len(s) >= width THEN s ELSE zfill("0" \o s, width)

\* The name lookup: the first of NAME, COUNTYNAME, County_Nam that is a
\* column of the row; None when the row has none of them.
county_name_of(match, gdf) ==
  IF gdf.name_column \in {"NAME", "COUNTYNAME", "County_Nam"} THEN Some(match.name) ELSE None

\* counties_gdf[counties_gdf.geometry.contains(point)]
matches_of(gdf, point) == SelectSeq(gdf.rows, LAMBDA c : Contains(c, point))

\* The handler body.  Its except branch (HTTPException 500) is taken when the
\* lookup raises; contains() on a finite point and the polygons of the
\* dataset does not raise.
get_county_from_point(lat, lng, gdf) ==
  LET point == Point(lng, lat)
      matches == matches_of(gdf, point)
  IN  IF Len(matches) = 0
      THEN Ok([fips_code |-> None, county_name |-> None])
      ELSE LET match == matches[1]
           IN  Ok([fips_code |-> Some(zfill(str(match.FIPS, gdf.fips_dtype), FIPS_WIDTH)),
                   county_name |-> county_name_of(match, gdf)])

\* --------------------------------------------------------------- images
SizeLimit == MAX_SIZE_MB * 1024 * 1024

\* base64.b64encode(jpeg of the thumbnail of the file)
b64_thumbnail(file) == "b64(jpeg(thumbnail(" \o file.filename \o ")))"

\* One pass of the loop body for one file: the entry appended to results.
convert_one(file) ==
  IF file.size > SizeLimit THEN None
  ELSE IF ~file.is_image THEN None      \* Image.open raises, the except appends None
  ELSE Some(b64_thumbnail(file))

\* the loop with "continue" taken before the append for a file that yields
\* no thumbnail
RECURSIVE convert_loop_skipping(_, _)
convert_loop_skipping(files, results) ==
  IF files = <<>> THEN results
  ELSE convert_loop_skipping(Tail(files),
         IF convert_one(Head(files)) = None THEN results
         ELSE Append(results, convert_one(Head(files))))

RECURSIVE convert_loop(_, _)
convert_loop(files, results) ==
  IF files = <<>> THEN results
  ELSE convert_loop(Tail(files), Append(results, convert_one(Head(files))))

convert_images(files) ==
  IF Len(files) > MAX_FILES
  THEN HTTPException(400, "Too many files (max " \o ToString(MAX_FILES) \o ")")
  ELSE Ok([images |-> convert_loop(files, <<>>)])

\* ------------------------------------------------------------------ inputs
RouteLats == {1, 3, 91}
RouteLngs == {1, 2, 3}
\* coordinate pairs of a route; <<1>> is a pair with a coordinate missing
Pairs == { <<la, ln>> : la \in RouteLats, ln \in RouteLngs } \cup { <<1>> }
Routes == UNION { [1..n -> Pairs] : n \in 0..MaxRoutePts }

\* The routes of a batch: the empty route, a single point, a point twice, and
\* a route across counties A and B in both directions.
BatchRoutes ==
  { <<>>, << <<1, 1>> >>, << <<1, 1>>, <<1, 1>> >>,
    << <<1, 1>>, <<3, 1>> >>, << <<3, 1>>, <<1, 1>> >> }
Batches == UNION { [1..n -> BatchRoutes] : n \in 0..MaxBatch }

PointLats == { None } \cup { Some(v) : v \in {-91, -90, 1, 2, 3, 90, 91} }
PointLngs == { None } \cup { Some(v) : v \in {-181, -180, 1, 2, 3, 180, 181} }

\* An upload of n files; file o (if o > 0) is one byte over the size limit,
\* file c (if c > 0) is not an image; the other files are images of exactly
\* the size limit.
Upload(n, o, c) ==
  [i \in 1..n |-> [filename |-> "f" \o ToString(i),
                   size |-> IF i = o THEN SizeLimit + 1 ELSE SizeLimit,
                   is_image |-> i # c]]

\* ----------------------------------------------------------------- actions
\* Module import: the boundary file is read into counties_gdf.
Init ==
  /\ \/ boundary_file \in TextFiles
     \/ boundary_file \in NumericFiles
  /\ counties_gdf = read_file(boundary_file)
  /\ loads = 1
  /\ request = Idle
  /\ response = NoResponse
  /\ entered = FALSE

\* POST /process_polyline/.  PolylineInput is List[List[float]]: a list of
\* lists of numbers of any length and any value is accepted, so the handler
\* body runs for every route.
ProcessPolyline ==
  /\ request = Idle
  /\ loads < MaxLoads
  /\ \E polyline \in Routes :
       /\ request' = [endpoint |-> "process_polyline", polyline |-> polyline]
       /\ \E o \in process_polyline(polyline, boundary_file) :
            /\ response' = o.response
            /\ loads' = loads + o.loaded
  /\ entered' = TRUE
  /\ UNCHANGED <<boundary_file, counties_gdf>>

\* POST /process_polylines_batch/.  PolylineBatchInput is
\* List[List[List[float]]]: the handler body runs for every batch.
ProcessPolylinesBatch ==
  /\ request = Idle
  /\ \E polylines \in Batches :
       /\ request' = [endpoint |-> "process_polylines_batch", polylines |-> polylines]
       /\ response' \in process_polylines_batch(polylines, counties_gdf)
  /\ entered' = TRUE
  /\ UNCHANGED <<boundary_file, counties_gdf, loads>>

\* POST /get_county_from_point/.  A request PointRequest rejects is answered
\* by the framework; the handler body runs for the others.
GetCountyFromPoint ==
  /\ request = Idle
  /\ \E lat \in PointLats, lng \in PointLngs :
       /\ request' = [endpoint |-> "get_county_from_point", lat |-> lat, lng |-> lng]
       /\ IF ValidPointRequest(lat, lng)
          THEN /\ response' = get_county_from_point(lat[1], lng[1], counties_gdf)
               /\ entered' = TRUE
          ELSE /\ response' = UnprocessableEntity
               /\ entered' = FALSE
  /\ UNCHANGED <<boundary_file, counties_gdf, loads>>

\* POST /convert_images/
ConvertImages ==
  /\ request = Idle
  /\ \E n \in 0..MaxUpload :
       \E o, c \in 0..Min(n, MaxBadSlot) :
         /\ request' = [endpoint |-> "convert_images", files |-> Upload(n, o, c)]
         /\ response' = convert_images(Upload(n, o, c))
  /\ entered' = TRUE
  /\ UNCHANGED <<boundary_file, counties_gdf, loads>>

\* The response is sent; the request-scoped objects are discarded.
Complete ==
  /\ request # Idle
  /\ request' = Idle
  /\ response' = NoResponse
  /\ entered' = FALSE
  /\ UNCHANGED <<boundary_file, counties_gdf, loads>>

Next ==
  \/ ProcessPolyline
  \/ ProcessPolylinesBatch
  \/ GetCountyFromPoint
  \/ ConvertImages
  \/ Complete

Spec == Init /\ [][Next]_vars

\* ------------------------------------------------------------------ claims
IsRoute(req) == req.endpoint = "process_polyline"
IsBatch(req) == req.endpoint = "process_polylines_batch"
IsPoint(req) == req.endpoint = "get_county_from_point"
IsImages(req) == req.endpoint = "convert_images"

\* sub occurs in s
Occurs(sub, s) ==
  \E i \in 1..(Len(s) - Len(sub) + 1) : SubSeq(s, i, i + Len(sub) - 1) = sub

\* a coordinate pair with both fields present and in range
ValidPair(pair) ==
  /\ Len(pair) = 2
  /\ LAT_MIN <= pair[1] /\ pair[1] <= LAT_MAX
  /\ LNG_MIN <= pair[2] /\ pair[2] <= LNG_MAX

ValidRoute(polyline) == \A i \in DOMAIN polyline : ValidPair(polyline[i])

\* fewer than 2 points, or all points coincide
Degenerate(polyline) ==
  \/ Len(polyline) < 2
  \/ \A i, j \in DOMAIN polyline : polyline[i] = polyline[j]

\* the point is in the closed rectangle
Covers(c, p) ==
  /\ c.xmin <= p.x /\ p.x <= c.xmax
  /\ c.ymin <= p.y /\ p.y <= c.ymax

\* C1: a batch of n routes gets n results, index-aligned; a route that fails
\* gets an empty entry at its index, every other route the result it gets on
\* its own, and the batch is never aborted.
C1_BatchIsolation ==
  IsBatch(request) =>
    /\ response.status = 200
    /\ Len(response.body.results) = Len(request.polylines)
    /\ \A i \in DOMAIN request.polylines :
         LET alone == process_single_polyline(request.polylines[i], counties_gdf)
         IN  IF Raised \in alone
             THEN response.body.results[i] = None
             ELSE Returned(response.body.results[i]) \in alone

\* The order of 1..Len(rows) a stable ascending sort by intersection_order
\* gives: equal keys keep their order in rows.
StableOrder(rows, line) ==
  CHOOSE p \in AscendingOrders(rows, line) :
    \A i, j \in DOMAIN rows :
      (i < j /\ ~KeyLess(intersection_order(rows, line, p[i]),
                        intersection_order(rows, line, p[j]))) => p[i] < p[j]

\* C2: the single-route result is the FIPS of exactly the counties that meet
\* the path the handler builds, each once, ascending by ordering key, equal
\* keys in dataset (discovery) order.
C2_StableOrderedCrossings ==
  (IsRoute(request) /\ response.status = 200) =>
    LET line == decoded_path(request.polyline)
        rows == sjoin(counties_gdf, line)
    IN  response.body.fips_codes =
          [i \in DOMAIN rows |-> rows[StableOrder(rows, line)[i]].FIPS]

\* C3: the boundary file is loaded exactly once, whatever requests are
\* handled.
C3_LoadedOnce == loads = 1

\* s is t with zeros on its left
ZeroPadded(s, t) ==
  /\ Len(s) >= Len(t)
  /\ SubSeq(s, Len(s) - Len(t) + 1, Len(s)) = t
  /\ \A i \in 1..(Len(s) - Len(t)) : SubSeq(s, i, i) = "0"

\* C4: a valid point gets a 200 answer that is either null/null, when no
\* county contains the point, or a FIPS string of exactly 5 characters: the
\* stored FIPS of a containing county, left-padded with zeros.
C4_LocateFipsWidth ==
  (IsPoint(request) /\ ValidPointRequest(request.lat, request.lng)) =>
    LET point == Point(request.lng[1], request.lat[1])
        inside == { i \in DOMAIN counties_gdf.rows : Contains(counties_gdf.rows[i], point) }
    IN  /\ response.status = 200
        /\ inside = {} =>
             /\ response.body.fips_code = None
             /\ response.body.county_name = None
        /\ inside # {} =>
             /\ response.body.fips_code # None
             /\ Len(response.body.fips_code[1]) = 5
             /\ \E i \in inside :
                  ZeroPadded(response.body.fips_code[1],
                             str(counties_gdf.rows[i].FIPS, counties_gdf.fips_dtype))

\* C4 witness: a point inside a county whose stored FIPS has 4 digits was
\* answered with the padded code.
C4_Witness ==
  /\ IsPoint(request)
  /\ response.status = 200
  /\ counties_gdf.fips_dtype = "int"
  /\ response.body.fips_code = Some("01001")

\* The rows whose closed polygon has the point on its border.
BorderRows(gdf, point) ==
  { i \in DOMAIN gdf.rows : Covers(gdf.rows[i], point) /\ ~Contains(gdf.rows[i], point) }

\* C5: a point on the border shared by two counties resolves to exactly one
\* of the two, never to no match.
C5_BorderResolves ==
  (/\ IsPoint(request)
   /\ ValidPointRequest(request.lat, request.lng)
   /\ Cardinality(BorderRows(counties_gdf, Point(request.lng[1], request.lat[1]))) = 2) =>
    /\ response.status = 200
    /\ response.body.fips_code # None
    /\ \E i \in BorderRows(counties_gdf, Point(request.lng[1], request.lat[1])) :
         response.body.fips_code[1] =
           zfill(str(counties_gdf.rows[i].FIPS, counties_gdf.fips_dtype), FIPS_WIDTH)

\* The request carries a coordinate that is missing or out of range.
InvalidCoordinates(req) ==
  \/ IsPoint(req) /\ ~ValidPointRequest(req.lat, req.lng)
  \/ IsRoute(req) /\ ~ValidRoute(req.polyline)
  \/ IsBatch(req) /\ \E i \in DOMAIN req.polylines : ~ValidRoute(req.polylines[i])

\* C6: a request with a missing or out-of-range coordinate is rejected with a
\* validation failure and the handler body never runs for it.
C6_InvalidRejected ==
  InvalidCoordinates(request) => (response.status = 422 /\ ~entered)

\* C7: a route of fewer than 2 points, or whose points all coincide, ends in
\* an error of its own (no success, no validation error): it never gets a
\* FIPS list.
C7_DegenerateRouteError ==
  (IsRoute(request) /\ Degenerate(request.polyline)) =>
    response.status \notin {200, 422}

\* The entry file i of an upload must get.
ExpectedEntry(file) ==
  IF file.size > SizeLimit \/ ~file.is_image THEN None
  ELSE Some(b64_thumbnail(file))

\* C8: an upload that is not rejected for its count gets a list with one
\* entry per file, in input order: the file's thumbnail, or null for a file
\* that is oversize or does not decode; a failing file changes no other
\* entry.
C8_ImagesAligned ==
  (IsImages(request) /\ response.status # 400) =>
    /\ response.status = 200
    /\ Len(response.body.images) = Len(request.files)
    /\ \A i \in DOMAIN request.files :
         response.body.images[i] = ExpectedEntry(request.files[i])

\* C8 witness: an answered upload with a thumbnail, an oversize file and a
\* file that does not decode, the failing files before a converted one.
C8_Witness ==
  /\ IsImages(request)
  /\ response.status = 200
  /\ \E i, j, k \in DOMAIN request.files :
       /\ i < k /\ j < k
       /\ request.files[i].size > SizeLimit
       /\ request.files[j].size <= SizeLimit /\ ~request.files[j].is_image
       /\ response.body.images[i] = None
       /\ response.body.images[j] = None
       /\ response.body.images[k] # None

\* C9: more than 10 files are rejected with 400 and a detail naming the
\* limit of 10 per batch; 10 or fewer are not rejected for their count.
C9_TooManyFiles ==
  IsImages(request) =>
    IF Len(request.files) > 10
    THEN /\ response.status = 400
         /\ Occurs("Too many files", response.detail)
         /\ Occurs("max 10 per batch", response.detail)
    ELSE response.status # 400

\* C10: a route one of whose points is located inside county C has C's FIPS
\* in its result.
C10_RouteContainsLocatedCounties ==
  (IsRoute(request) /\ ValidRoute(request.polyline) /\ response.status = 200) =>
    \A i \in DOMAIN request.polyline :
      LET point == Point(request.polyline[i][2], request.polyline[i][1])
          matches == matches_of(counties_gdf, point)
      IN  Len(matches) > 0 =>
            \E k \in DOMAIN response.body.fips_codes :
              response.body.fips_codes[k] = matches[1].FIPS

====
